---- MODULE Spec2Model ----
(***************************************************************************)
(* Model of src/src/NewPagination.tsx: the Pagination function component.  *)
(*                                                                         *)
(* State is what React keeps between renders: the props the host supplies  *)
(* (total, current, pageSize, disabled, showLessItems), the two inner      *)
(* values of useMergedState (page size, current page) and the useState     *)
(* value internalInputVal.  Everything else (current, allPages, hasPrev,   *)
(* jumpPrevPage ...) is recomputed from these on every render and is an    *)
(* operator here.  One action per event handler; a handler runs on the     *)
(* closure of the last render and its state updates are applied together.  *)
(*                                                                         *)
(* JavaScript values that reach the handlers are numbers and the strings   *)
(* an <input> produces; they are tagged records so that === and + keep     *)
(* their JavaScript meaning ('' + 1 is the string '1', '' - 1 is -1).      *)
(*                                                                         *)
(* useMergedState is rc-util's hook (rc-util 5.x, hooks/useMergedState):   *)
(*   mergedValue = value !== undefined ? value : innerValue                *)
(*   returned    = postState(mergedValue)                                  *)
(*   setter(v)   : innerValue := v; prevValue := [mergedValue]; after the  *)
(*                 render, if innerValue !== prevValue[0] then onChange(v) *)
(***************************************************************************)
EXTENDS Integers, Sequences, FiniteSets, TLC

VARIABLES
    total,             \* props.total
    currentProp,       \* props.current: <<>> when not supplied, else <<n>>
    pageSizeProp,      \* props.pageSize: <<>> when not supplied, else <<n>>
    disabled,          \* props.disabled
    showLessItems,     \* props.showLessItems
    innerCurrent,      \* inner value of useMergedState (current), a JS value
    innerPageSize,     \* inner value of useMergedState (pageSize)
    internalInputVal,  \* useState(current), a JS value
    last,              \* the handler that ran last and its argument
    notes              \* the notifications that handler fired, in order

vars == <<total, currentProp, pageSizeProp, disabled, showLessItems,
          innerCurrent, innerPageSize, internalInputVal, last, notes>>

props == <<total, currentProp, pageSizeProp, disabled, showLessItems>>

-----------------------------------------------------------------------------
(* Bounds of the model *)

MaxTotal == 6
MinTotal == 1
MaxPageSize == 2

Totals == (0 - MinTotal)..MaxTotal
PageSizes == 1..MaxPageSize
Pages == 1..MaxTotal
PageCands == 0..(MaxTotal + 1)

-----------------------------------------------------------------------------
(* JavaScript values *)

Undefined == <<>>

Num(n) == [k |-> "number", n |-> n]
\* the string whose characters are the decimal digits of n
Str(n) == [k |-> "string", n |-> n]
\* the string ''; Number('') is 0
Empty == [k |-> "empty", n |-> 0]
\* a string that is not a number, e.g. 'abc'; Number('abc') is NaN
NaNText == [k |-> "nan", n |-> 0]

ToNumber(v) == v.n

Min(a, b) == IF a <= b THEN a ELSE b
Max(a, b) == IF a >= b THEN a ELSE b

\* v + 1: numeric addition for a number, concatenation for a string
PlusOne(v) ==
    CASE v.k = "number" -> Num(v.n + 1)
      [] v.k = "empty" -> Str(1)
      [] v.k = "string" -> Str(10 * v.n + 1)
      [] OTHER -> v

\* v - 1: always numeric
MinusOne(v) == IF v.k = "nan" THEN v ELSE Num(v.n - 1)

isInteger(v) == v.k # "nan"

\* calculatePage without the "- 1" before the division
calculatePageNoOffset(p, pageSize, tot) ==
    LET _pageSize == IF p = Undefined THEN pageSize ELSE p
    IN  (tot \div _pageSize[1]) + 1

calculatePage(p, pageSize, tot) ==
    LET _pageSize == IF p = Undefined THEN pageSize ELSE p
    IN  ((tot - 1) \div _pageSize[1]) + 1

-----------------------------------------------------------------------------
(* Values recomputed on every render *)

\* useMergedState (pageSize): no postState
pageSize == IF pageSizeProp # Undefined THEN pageSizeProp[1] ELSE innerPageSize

\* a merged value that prefers the inner value to the prop
mergedCurrentInner == innerCurrent

\* useMergedState (current): the value before postState
mergedCurrent ==
    IF currentProp # Undefined THEN Num(currentProp[1]) ELSE innerCurrent

\* postState without the clamp to the last page
postStateNoClamp(c) == ToNumber(c)

postState(c) ==
    Min(ToNumber(c), calculatePage(<<pageSize>>, Undefined, total))

current == postState(mergedCurrent)

allPages == calculatePage(Undefined, <<pageSize>>, total)

\* jumpDistance with the two distances exchanged
jumpDistanceSwapped == IF showLessItems THEN 5 ELSE 3

jumpDistance == IF showLessItems THEN 3 ELSE 5

jumpPrevPage == Max(1, current - jumpDistance)

jumpNextPage ==
    Min(calculatePage(Undefined, <<pageSize>>, total), current + jumpDistance)

\* hasPrev that also holds on the first page
hasPrevOnFirst == current >= 1

hasPrev == current > 1

hasNext == current < calculatePage(Undefined, <<pageSize>>, total)

\* isValid without the comparison with the current page
isValidAnyPage(page) ==
    /\ isInteger(page)
    /\ isInteger(Num(total))
    /\ total > 0

isValid(page) ==
    /\ isInteger(page)
    /\ page # Num(current)
    /\ isInteger(Num(total))
    /\ total > 0

\* getValidValue without the branch for text that is not a number: NaN fails
\* the comparison with allPages and Number(inputValue) is returned
getValidValueKeepsNaN(inputValue) ==
    IF inputValue = Empty THEN inputValue
    ELSE IF inputValue.k = "nan" THEN inputValue
    ELSE IF ToNumber(inputValue) >= allPages THEN Num(allPages)
    ELSE Num(ToNumber(inputValue))

\* e.target.value is the text typed into the quick-jump input
getValidValue(inputValue) ==
    IF inputValue = Empty THEN inputValue
    ELSE IF inputValue.k = "nan" THEN internalInputVal
    ELSE IF ToNumber(inputValue) >= allPages THEN Num(allPages)
    ELSE Num(ToNumber(inputValue))

-----------------------------------------------------------------------------
(* Notifications to the host *)

onChange(page, size) == [name |-> "onChange", page |-> page, pageSize |-> size]

onShowSizeChange(page, size) ==
    [name |-> "onShowSizeChange", page |-> page, pageSize |-> size]

\* the setter of useMergedState (current): the notifications it fires once
\* the render that follows has run its layout effect
setCurrentNotes(newValue) ==
    IF newValue # mergedCurrent THEN <<onChange(newValue, pageSize)>> ELSE <<>>

-----------------------------------------------------------------------------
(* handleChange, as a step inside a handler.  pendingInput is the value    *)
(* internalInputVal will take from setState calls the handler made before  *)
(* calling handleChange; the closure still reads the old internalInputVal. *)

newPageOf(page) ==
    LET currentPage == calculatePage(Undefined, <<pageSize>>, total)
    IN  IF ToNumber(page) > currentPage THEN Num(currentPage)
        ELSE IF ToNumber(page) < 1 THEN Num(1)
        ELSE page

\* the guard of handleChange without the disabled flag
handleChangeGuardEnabled(page) == isValid(page)

handleChangeGuard(page) == isValid(page) /\ ~disabled

handleChangeStep(page, pendingInput) ==
    IF handleChangeGuard(page)
    THEN LET newPage == newPageOf(page)
         IN  /\ internalInputVal' =
                    IF newPage # internalInputVal THEN newPage ELSE pendingInput
             /\ innerCurrent' = newPage
             /\ notes' = setCurrentNotes(newPage)
    ELSE /\ internalInputVal' = pendingInput
         /\ innerCurrent' = innerCurrent
         /\ notes' = <<>>

\* last: the handler, the page it was called with (handleChange only), the
\* key (handleKeyUp only) and the kind of text in the input (handleKeyUp and
\* handleBlur only)
Ran(op, arg, key, text) ==
    last' = [op |-> op, arg |-> arg, key |-> key, text |-> text]

-----------------------------------------------------------------------------
(* Event handlers *)

\* a click on a page item (Pager onClick) or Options quickGo
handleChange(page) ==
    /\ handleChangeStep(Num(page), internalInputVal)
    /\ Ran("handleChange", page, "", "")
    /\ UNCHANGED <<props, innerPageSize>>

\* prevHandle asking for the current page instead of the one before it
prevHandleNoStep ==
    /\ IF hasPrev
       THEN handleChangeStep(Num(current), internalInputVal)
       ELSE UNCHANGED <<internalInputVal, innerCurrent>> /\ notes' = <<>>
    /\ Ran("prevHandle", 0, "", "")
    /\ UNCHANGED <<props, innerPageSize>>

prevHandle ==
    /\ IF hasPrev
       THEN handleChangeStep(Num(current - 1), internalInputVal)
       ELSE UNCHANGED <<internalInputVal, innerCurrent>> /\ notes' = <<>>
    /\ Ran("prevHandle", 0, "", "")
    /\ UNCHANGED <<props, innerPageSize>>

nextHandle ==
    /\ IF hasNext
       THEN handleChangeStep(Num(current + 1), internalInputVal)
       ELSE UNCHANGED <<internalInputVal, innerCurrent>> /\ notes' = <<>>
    /\ Ran("nextHandle", 0, "", "")
    /\ UNCHANGED <<props, innerPageSize>>

jumpPrevHandle ==
    /\ handleChangeStep(Num(jumpPrevPage), internalInputVal)
    /\ Ran("jumpPrevHandle", 0, "", "")
    /\ UNCHANGED <<props, innerPageSize>>

jumpNextHandle ==
    /\ handleChangeStep(Num(jumpNextPage), internalInputVal)
    /\ Ran("jumpNextHandle", 0, "", "")
    /\ UNCHANGED <<props, innerPageSize>>

KeyCodes == {"ENTER", "UP", "DOWN", "OTHER"}

handleKeyUp(text, keyCode) ==
    LET value == getValidValue(text)
    IN  /\ CASE keyCode = "ENTER" -> handleChangeStep(value, value)
             [] keyCode = "UP" -> handleChangeStep(MinusOne(value), value)
             [] keyCode = "DOWN" -> handleChangeStep(PlusOne(value), value)
             [] OTHER -> /\ internalInputVal' = value
                         /\ innerCurrent' = innerCurrent
                         /\ notes' = <<>>
        /\ Ran("handleKeyUp", 0, keyCode, text.k)
        /\ UNCHANGED <<props, innerPageSize>>

handleBlur(text) ==
    /\ handleChangeStep(getValidValue(text), internalInputVal)
    /\ Ran("handleBlur", 0, "", text.k)
    /\ UNCHANGED <<props, innerPageSize>>

\* the go button of the simple pager
handleGoTO ==
    /\ handleChangeStep(internalInputVal, internalInputVal)
    /\ Ran("handleGoTO", 0, "", "")
    /\ UNCHANGED <<props, innerPageSize>>

\* changePageSize notifying of the page only when the page changes
changePageSizeQuietPage(size) ==
    LET newCurrent == calculatePage(<<size>>, <<pageSize>>, total)
        nextCurrent ==
            IF current > newCurrent /\ newCurrent # 0 THEN newCurrent ELSE current
    IN  /\ innerPageSize' = size
        /\ internalInputVal' = Num(nextCurrent)
        /\ notes' = (IF nextCurrent # current
                      THEN <<onChange(Num(nextCurrent), size)>> ELSE <<>>)
                     \o <<onShowSizeChange(Num(nextCurrent), size)>>
        /\ Ran("changePageSize", 0, "", "")
        /\ UNCHANGED <<props, innerCurrent>>

changePageSize(size) ==
    LET newCurrent == calculatePage(<<size>>, <<pageSize>>, total)
        nextCurrent ==
            IF current > newCurrent /\ newCurrent # 0 THEN newCurrent ELSE current
    IN  /\ innerPageSize' = size
        /\ internalInputVal' = Num(nextCurrent)
        /\ notes' = <<onChange(Num(nextCurrent), size),
                      onShowSizeChange(Num(nextCurrent), size)>>
        /\ Ran("changePageSize", 0, "", "")
        /\ UNCHANGED <<props, innerCurrent>>

-----------------------------------------------------------------------------
(* The host re-renders the control with new props *)

Rendered == Ran("render", 0, "", "") /\ notes' = <<>>

setTotalProp(t) ==
    /\ total' = t
    /\ Rendered
    /\ UNCHANGED <<currentProp, pageSizeProp, disabled, showLessItems,
                   innerCurrent, innerPageSize, internalInputVal>>

\* a controlled current stays controlled: the host supplies a new value
setCurrentProp(c) ==
    /\ currentProp # Undefined
    /\ currentProp' = <<c>>
    /\ Rendered
    /\ UNCHANGED <<total, pageSizeProp, disabled, showLessItems,
                   innerCurrent, innerPageSize, internalInputVal>>

setPageSizeProp(s) ==
    /\ pageSizeProp # Undefined
    /\ pageSizeProp' = <<s>>
    /\ Rendered
    /\ UNCHANGED <<total, currentProp, disabled, showLessItems,
                   innerCurrent, innerPageSize, internalInputVal>>

setDisabledProp(d) ==
    /\ disabled' = d
    /\ Rendered
    /\ UNCHANGED <<total, currentProp, pageSizeProp, showLessItems,
                   innerCurrent, innerPageSize, internalInputVal>>

-----------------------------------------------------------------------------
(* The state after the first render *)

Texts == {Empty, NaNText} \cup {Str(n) : n \in PageCands}

Mounted(controlledCurrent, controlledPageSize) ==
    /\ total \in Totals
    /\ disabled \in BOOLEAN
    /\ showLessItems \in BOOLEAN
    /\ \E defaultPageSize \in PageSizes :
          /\ innerPageSize = defaultPageSize
          /\ pageSizeProp =
                IF controlledPageSize THEN <<defaultPageSize>> ELSE Undefined
    /\ \E defaultCurrent \in Pages :
          /\ innerCurrent = Num(defaultCurrent)
          /\ currentProp =
                IF controlledCurrent THEN <<defaultCurrent>> ELSE Undefined
    /\ internalInputVal = Num(current)
    /\ last = [op |-> "mount", arg |-> 0, key |-> "", text |-> ""]
    /\ notes = <<>>

UserAction ==
    \/ \E page \in PageCands : handleChange(page)
    \/ prevHandle
    \/ nextHandle
    \/ jumpPrevHandle
    \/ jumpNextHandle
    \/ \E text \in Texts, keyCode \in KeyCodes : handleKeyUp(text, keyCode)
    \/ \E text \in Texts : handleBlur(text)
    \/ handleGoTO
    \/ \E size \in PageSizes : changePageSize(size)

\* current and pageSize both held by the control
Init == Mounted(FALSE, FALSE)

Next ==
    \/ UserAction
    \/ \E t \in Totals : setTotalProp(t)
    \/ \E d \in BOOLEAN : setDisabledProp(d)

Spec == Init /\ [][Next]_vars

\* exactly one of current and pageSize supplied by the host, on an enabled
\* control that shows all its items (showLessItems not set)
InitControlled ==
    /\ \E cc \in BOOLEAN, cp \in BOOLEAN : (cc # cp) /\ Mounted(cc, cp)
    /\ ~disabled
    /\ ~showLessItems

NextControlled ==
    \/ UserAction
    \/ \E t \in Totals : setTotalProp(t)
    \/ \E c \in Pages : setCurrentProp(c)
    \/ \E s \in PageSizes : setPageSizeProp(s)

SpecControlled == InitControlled /\ [][NextControlled]_vars

-----------------------------------------------------------------------------
(* pagerList: the page items of the normal (not simple) pager, left to      *)
(* right.  showPrevNextJumpers is a prop that never changes; it is a        *)
(* parameter here.  The className patches (item-after-jump-prev,            *)
(* item-before-jump-next) and the active flag are styling and are left out. *)

Pager(page) == [type |-> "page", page |-> page]

\* the disabled placeholder shown when there is no page
noPager == [type |-> "noPager", page |-> 1]

\* jumpPrev / jumpNext stay null when showPrevNextJumpers is off
null == [type |-> "null", page |-> 0]

jumpPrev(showPrevNextJumpers) ==
    IF showPrevNextJumpers
    THEN [type |-> "jump-prev", page |-> jumpPrevPage]
    ELSE null

jumpNext(showPrevNextJumpers) ==
    IF showPrevNextJumpers
    THEN [type |-> "jump-next", page |-> jumpNextPage]
    ELSE null

pageBufferSize == IF showLessItems THEN 1 ELSE 2

\* left without the correction at the end of the range
leftNoEndPin == Max(1, current - pageBufferSize)

left ==
    IF allPages - current <= pageBufferSize
    THEN allPages - pageBufferSize * 2
    ELSE Max(1, current - pageBufferSize)

\* right without the correction at the start of the range
rightNoStartPin == Min(current + pageBufferSize, allPages)

right ==
    IF current - 1 <= pageBufferSize
    THEN 1 + pageBufferSize * 2
    ELSE Min(current + pageBufferSize, allPages)

\* the condition under which jumpPrev is put in front of the window
\* showsJumpPrev without the exception for page 3
showsJumpPrevAtThree == current - 1 >= pageBufferSize * 2

showsJumpPrev == current - 1 >= pageBufferSize * 2 /\ current # 1 + 2

showsJumpNext ==
    allPages - current >= pageBufferSize * 2 /\ current # allPages - 2

\* Pager items for the pages from..to
pagers(from, to) == [i \in 1..(to - from + 1) |-> Pager(from + i - 1)]

\* pagerList putting page 1 in front whatever the window starts with
pagerListAlwaysFirst(showPrevNextJumpers) ==
    IF allPages <= 3 + pageBufferSize * 2
    THEN (IF allPages = 0 THEN <<noPager>> ELSE <<>>) \o pagers(1, allPages)
    ELSE LET window == pagers(left, right)
             withPrev == IF showsJumpPrev
                         THEN <<jumpPrev(showPrevNextJumpers)>> \o window
                         ELSE window
             withNext == IF showsJumpNext
                         THEN withPrev \o <<jumpNext(showPrevNextJumpers)>>
                         ELSE withPrev
             withFirst == <<Pager(1)>> \o withNext
         IN  IF right # allPages
             THEN withFirst \o <<Pager(allPages)>>
             ELSE withFirst

pagerList(showPrevNextJumpers) ==
    IF allPages <= 3 + pageBufferSize * 2
    THEN (IF allPages = 0 THEN <<noPager>> ELSE <<>>) \o pagers(1, allPages)
    ELSE LET window == pagers(left, right)
             withPrev == IF showsJumpPrev
                         THEN <<jumpPrev(showPrevNextJumpers)>> \o window
                         ELSE window
             withNext == IF showsJumpNext
                         THEN withPrev \o <<jumpNext(showPrevNextJumpers)>>
                         ELSE withPrev
             withFirst == IF left # 1
                          THEN <<Pager(1)>> \o withNext
                          ELSE withNext
         IN  IF right # allPages
             THEN withFirst \o <<Pager(allPages)>>
             ELSE withFirst

\* the items of a list as a set
Items(list) == {list[i] : i \in 1..Len(list)}

-----------------------------------------------------------------------------
(* The normal pager of an enabled control that holds its state, driven by   *)
(* the items it shows: page items, prev, next and the jump items.           *)

MaxRangeTotal == 12

pagerClick(page) ==
    /\ Pager(page) \in Items(pagerList(TRUE))
    /\ handleChange(page)

jumpPrevClick ==
    /\ jumpPrev(TRUE) \in Items(pagerList(TRUE))
    /\ jumpPrevHandle

jumpNextClick ==
    /\ jumpNext(TRUE) \in Items(pagerList(TRUE))
    /\ jumpNextHandle

\* total 1..MaxRangeTotal with one item a page, or the 500 items of the
\* scenarios with the default page size (defaultPageSize = 10); the control
\* starts on the default page (defaultCurrent = 1)
InitRange ==
    /\ \/ total \in 1..MaxRangeTotal /\ innerPageSize = 1
       \/ total = 500 /\ innerPageSize = 10
    /\ pageSizeProp = Undefined
    /\ currentProp = Undefined
    /\ disabled = FALSE
    /\ showLessItems \in BOOLEAN
    /\ innerCurrent = Num(1)
    /\ internalInputVal = Num(current)
    /\ last = [op |-> "mount", arg |-> 0, key |-> "", text |-> ""]
    /\ notes = <<>>

NextRange ==
    \/ \E page \in 1..allPages : pagerClick(page)
    \/ prevHandle
    \/ nextHandle
    \/ jumpPrevClick
    \/ jumpNextClick

SpecRange == InitRange /\ [][NextRange]_vars

-----------------------------------------------------------------------------
(* Properties *)

\* the number of pages as the specification defines it
TotalPages(t, size) == ((t - 1) \div size) + 1

Clamp(page, pages) == Max(1, Min(page, pages))

\* the handlers that end in handleChange
SetPageOps ==
    {"handleChange", "prevHandle", "nextHandle", "jumpPrevHandle",
     "jumpNextHandle", "handleKeyUp", "handleBlur", "handleGoTO"}

\* the page changePageSize passes to its notifications
FallbackPage(cur, t, size) ==
    IF cur > TotalPages(t, size) /\ TotalPages(t, size) # 0
    THEN TotalPages(t, size)
    ELSE cur

\* C1: with current and pageSize held by the control and total >= 1, the
\* current page lies in 1..totalPages(total, pageSize) after any sequence of
\* user actions and changes of total.
C1_CurrentInRange ==
    total >= 1 => (1 <= current /\ current <= TotalPages(total, pageSize))

\* C1 witness: a page-size change left the stored page beyond the last page
\* and the reported page is the last page.
C1_Witness ==
    /\ total >= 1
    /\ last.op = "changePageSize"
    /\ ToNumber(innerCurrent) > TotalPages(total, pageSize)
    /\ current = TotalPages(total, pageSize)

\* C2 (as claimed): whenever totalPages is 0 (total = 0) the reported current
\* page is 1.
C2_ReportsOneWhenNoPages ==
    (total = 0 /\ TotalPages(total, pageSize) = 0) => current = 1

\* C3 (as claimed): after SetPageSize(newSize) the current page is
\* totalPages(total, newSize) if the previous current page exceeded it and it
\* is non-zero, and otherwise the previous current page (total >= 0).
C3_SetPageSizeResult ==
    [][(last'.op = "changePageSize" /\ total >= 0)
          => current' = FallbackPage(current, total, pageSize')]_vars

\* C4 (as claimed): with total fixed (and >= 0), no SetPageSize increases the
\* current page.
C4_SetPageSizeNeverIncreases ==
    [][(last'.op = "changePageSize" /\ total' = total /\ total >= 0)
          => current' <= current]_vars

\* C5: every SetPageSize(newSize) fires the page-change notification and then
\* the page-size-change notification, once each, both with (p, newSize), p
\* being totalPages(total, newSize) when the current page exceeds it and it
\* is non-zero, and the current page otherwise.
C5_SetPageSizeNotifies ==
    [][\A size \in PageSizes :
          (last'.op = "changePageSize" /\ innerPageSize' = size)
             => LET p == Num(FallbackPage(current, total, size))
                IN  notes' = <<[name |-> "onChange", page |-> p,
                                pageSize |-> size],
                               [name |-> "onShowSizeChange", page |-> p,
                                pageSize |-> size]>>]_vars

\* C5 witness: a page-size change that kept the page it started from fired
\* both notifications.
C5_Witness ==
    /\ last.op = "changePageSize"
    /\ Len(notes) = 2
    /\ notes[1].page = innerCurrent
    /\ notes[2].page = innerCurrent
    /\ ToNumber(innerCurrent) < TotalPages(total, pageSize)

\* C6 (as claimed, for a current page held by the control): SetPage(c) on an
\* enabled control with total >= 1 and c different from the current page sets
\* the current page to c clamped into 1..totalPages and fires the page-change
\* notification once with (new page, pageSize) if and only if the clamped
\* page differs from the previous current page.
C6_SetPageClampsAndNotifies ==
    [][\A c \in PageCands :
          (/\ last'.op = "handleChange"
           /\ last'.arg = c
           /\ ~disabled
           /\ total >= 1
           /\ c # current)
             => LET newPage == Clamp(c, TotalPages(total, pageSize))
                IN  /\ current' = newPage
                    /\ notes' =
                          IF newPage # current
                          THEN <<[name |-> "onChange", page |-> Num(newPage),
                                  pageSize |-> pageSize]>>
                          ELSE <<>>]_vars

\* C7: SetPage(c) with c equal to the current page changes neither the
\* current page, the page size nor the pending input value and fires nothing.
C7_SetPageSameIsNoOp ==
    [][(last'.op = "handleChange" /\ last'.arg = current)
          => /\ current' = current
             /\ pageSize' = pageSize
             /\ internalInputVal' = internalInputVal
             /\ innerCurrent' = innerCurrent
             /\ notes' = <<>>]_vars

\* C7 witness: SetPage was called with the page the control reports, on an
\* enabled control with pages, while the pending input held another value.
C7_Witness ==
    /\ last.op = "handleChange"
    /\ last.arg = current
    /\ notes = <<>>
    /\ ~disabled
    /\ total >= 1
    /\ internalInputVal # Num(current)

\* C8: while disabled, no handler that ends in SetPage changes the current
\* page or fires a notification.
C8_DisabledBlocksSetPage ==
    [][(disabled /\ last'.op \in SetPageOps)
          => (current' = current /\ notes' = <<>>)]_vars

\* C8 witness: a page other than the reported one was clicked on a disabled
\* control that has that page.
C8_Witness ==
    /\ disabled
    /\ last.op = "handleChange"
    /\ last.arg # current
    /\ last.arg >= 1
    /\ last.arg <= TotalPages(total, pageSize)

\* C9: on an enabled control holding its current page, Prev with current > 1
\* decreases the current page by exactly 1 and Next with current < totalPages
\* increases it by exactly 1, never beyond totalPages.
C9_PrevNextStepByOne ==
    [][/\ (~disabled /\ last'.op = "prevHandle" /\ current > 1)
            => current' = current - 1
       /\ (~disabled /\ last'.op = "nextHandle"
              /\ current < TotalPages(total, pageSize))
            => (current' = current + 1
                  /\ current' <= TotalPages(total', pageSize'))]_vars

\* C9 witness: Next moved the control onto its last page.
C9_Witness ==
    /\ last.op = "nextHandle"
    /\ notes # <<>>
    /\ current = TotalPages(total, pageSize)
    /\ current > 1

\* C10: with the current page supplied by the host, a handler that ends in
\* SetPage leaves the reported current page unchanged, and a page click, Prev
\* or Next that targets another page fires the page-change notification once
\* with the target; with the page size supplied by the host, SetPageSize
\* leaves the reported page size unchanged and fires both notifications.
C10_ControlledValuesStay ==
    [][/\ (currentProp # Undefined /\ last'.op \in SetPageOps)
            => /\ current' = current
               /\ \A c \in PageCands :
                     (/\ last'.op = "handleChange"
                      /\ last'.arg = c
                      /\ total >= 1
                      /\ Clamp(c, TotalPages(total, pageSize)) # current)
                        => notes' =
                             <<[name |-> "onChange",
                                page |-> Num(Clamp(c, TotalPages(total, pageSize))),
                                pageSize |-> pageSize]>>
               /\ (last'.op = "prevHandle" /\ current > 1)
                     => notes' = <<[name |-> "onChange",
                                    page |-> Num(current - 1),
                                    pageSize |-> pageSize]>>
               /\ (last'.op = "nextHandle"
                      /\ current < TotalPages(total, pageSize))
                     => notes' = <<[name |-> "onChange",
                                    page |-> Num(current + 1),
                                    pageSize |-> pageSize]>>
       /\ (pageSizeProp # Undefined /\ last'.op = "changePageSize")
            => /\ pageSize' = pageSize
               /\ Len(notes') = 2
               /\ notes'[1].name = "onChange"
               /\ notes'[2].name = "onShowSizeChange"
               /\ notes'[1].pageSize = innerPageSize'
               /\ notes'[2].pageSize = innerPageSize']_vars

\* C10 witness: a page click notified the host of another page while the
\* control still reports the page the host supplied.
C10_Witness ==
    /\ currentProp # Undefined
    /\ last.op = "handleChange"
    /\ notes # <<>>
    /\ notes[1].page # Num(current)
    /\ current = currentProp[1]

\* the quick-jump input was confirmed (Enter or blur) with text that is not a
\* number
ConfirmedNaN(l) ==
    /\ l.text = "nan"
    /\ \/ l.op = "handleBlur"
       \/ (l.op = "handleKeyUp" /\ l.key = "ENTER")

\* the pending value is a page of the control
PendingIsPage ==
    /\ internalInputVal.k = "number"
    /\ 1 <= ToNumber(internalInputVal)
    /\ ToNumber(internalInputVal) <= TotalPages(total, pageSize)

\* C11 (as claimed): text that is not a number is coerced to the pending
\* value, and confirming it changes neither the pending value nor the current
\* page and fires nothing, whatever page the pending value is and whatever the
\* current page is.
C11_NaNCommitRejected ==
    [][(ConfirmedNaN(last') /\ PendingIsPage)
          => /\ getValidValue(NaNText) = internalInputVal
             /\ internalInputVal' = internalInputVal
             /\ current' = current
             /\ notes' = <<>>]_vars

\* C11 (amended): the same, when the pending value is the current page.
C11_NaNCommitOfCurrentPage ==
    [][(ConfirmedNaN(last') /\ internalInputVal = Num(current))
          => /\ getValidValue(NaNText) = internalInputVal
             /\ internalInputVal' = internalInputVal
             /\ current' = current
             /\ notes' = <<>>]_vars

\* C11 witness: text that is not a number was confirmed with Enter on an
\* enabled control with several pages whose pending value is its page.
C11_Witness ==
    /\ ConfirmedNaN(last)
    /\ last.op = "handleKeyUp"
    /\ ~disabled
    /\ TotalPages(total, pageSize) > 1
    /\ internalInputVal = Num(current)
    /\ notes = <<>>

\* the number of times an item occurs in a list
Occurrences(list, item) ==
    Cardinality({i \in 1..Len(list) : list[i] = item})

\* the page numbers of the page items of a list, left to right
PageNumbers(list) ==
    LET F[i \in 0..Len(list)] ==
            IF i = 0 THEN <<>>
            ELSE IF list[i].type = "page" THEN Append(F[i - 1], list[i].page)
            ELSE F[i - 1]
    IN  F[Len(list)]

\* the state is valid: there are pages and the current page is one of them
ValidState ==
    /\ TotalPages(total, pageSize) >= 1
    /\ 1 <= current
    /\ current <= TotalPages(total, pageSize)

\* C12: in every valid state the marker list holds page 1 at most once, the
\* last page at most once, the current page exactly once and no page number
\* twice, with and without jump markers.
C12_NoDuplicatePages ==
    ValidState =>
        \A showPrevNextJumpers \in BOOLEAN :
            LET list == pagerList(showPrevNextJumpers)
            IN  /\ Occurrences(list, Pager(1)) <= 1
                /\ Occurrences(list, Pager(TotalPages(total, pageSize))) <= 1
                /\ Occurrences(list, Pager(current)) = 1
                /\ \A p \in 1..TotalPages(total, pageSize) :
                      Occurrences(list, Pager(p)) <= 1

\* C12 witness: a click moved a control with collapsed pages to its first
\* page, where the window starts with page 1.
C12_Witness ==
    /\ last.op = "handleChange"
    /\ notes # <<>>
    /\ allPages > 3 + pageBufferSize * 2
    /\ current = 1
    /\ left = 1

\* a marker list without the targets of its jump markers
Shape(list) ==
    [i \in 1..Len(list) |->
        IF list[i].type = "page" THEN list[i]
        ELSE [type |-> list[i].type, page |-> 0]]

JumpPrevMarker == [type |-> "jump-prev", page |-> 0]
JumpNextMarker == [type |-> "jump-next", page |-> 0]

\* Scenario A: 500 items, 10 a page, on page 1, buffer size 2
ScenarioA ==
    /\ total = 500
    /\ pageSize = 10
    /\ current = 1
    /\ ~showLessItems

\* C13 (as claimed): in scenario A the marker list is [1, 2, 3, JumpNext, 50].
C13_ScenarioAThreePages ==
    ScenarioA =>
        Shape(pagerList(TRUE)) =
            <<Pager(1), Pager(2), Pager(3), JumpNextMarker, Pager(50)>>

\* C13 (amended): in scenario A the marker list is
\* [1, 2, 3, 4, 5, JumpNext, 50].
C13_ScenarioAFivePages ==
    ScenarioA =>
        Shape(pagerList(TRUE)) =
            <<Pager(1), Pager(2), Pager(3), Pager(4), Pager(5),
              JumpNextMarker, Pager(50)>>

\* C13 witness: scenario A, reached again by going back from page 2.
C13_Witness ==
    /\ ScenarioA
    /\ last.op = "prevHandle"
    /\ notes # <<>>

StepOps == {"prevHandle", "nextHandle", "jumpPrevHandle", "jumpNextHandle"}

\* C14 (as claimed): with total < 0 (and pageSize >= 1) the computed number of
\* pages is 0, and Prev, Next and the jump actions change nothing.
C14_NegativeTotalHasNoPages ==
    [][(total < 0 /\ pageSize >= 1)
          => /\ allPages = 0
             /\ (last'.op \in StepOps
                   => /\ UNCHANGED <<innerCurrent, innerPageSize,
                                     internalInputVal>>
                      /\ current' = current
                      /\ notes' = <<>>)]_vars

\* C15: for total >= 0 and pageSize >= 1 the computed number of pages is 0
\* exactly when total = 0, and for total >= 1 it is the least n with
\* n * pageSize >= total.
C15_TotalPagesIsCeiling ==
    (total >= 0 /\ pageSize >= 1)
        => /\ allPages = ((total - 1) \div pageSize) + 1
           /\ (allPages = 0) <=> (total = 0)
           /\ total >= 1
                => /\ allPages * pageSize >= total
                   /\ \A n \in 0..(allPages - 1) : n * pageSize < total

\* C15 witness: after a page-size change the last page is only partly filled.
C15_Witness ==
    /\ last.op = "changePageSize"
    /\ total >= 1
    /\ pageSize >= 2
    /\ allPages >= 2
    /\ allPages * pageSize > total

\* the page numbers of a marker list other than the boundary pages 1 and last
InnerPages(list, lastPage) ==
    {list[i].page : i \in {j \in 1..Len(list) : list[j].type = "page"}}
        \ {1, lastPage}

\* C16: when there are more than 3 + 2 * bufferSize pages, the window of
\* consecutive pages around the current page has exactly 2 * bufferSize + 1
\* entries, lies within 1..totalPages and contains the current page: it is
\* 1..1+2b when current - 1 <= b, totalPages-2b..totalPages when
\* totalPages - current <= b, and current-b..current+b otherwise; with 50
\* pages, page 25 and b = 2 the list is 1, JumpPrev, 23..27, JumpNext, 50.
C16_WindowAroundCurrent ==
    LET b == IF showLessItems THEN 1 ELSE 2
        list == pagerList(TRUE)
    IN  (allPages > 3 + 2 * b /\ 1 <= current /\ current <= allPages)
          => /\ right - left + 1 = 2 * b + 1
             /\ 1 <= left
             /\ right <= allPages
             /\ left <= current
             /\ current <= right
             /\ current - 1 <= b => (left = 1 /\ right = 1 + 2 * b)
             /\ allPages - current <= b
                  => (left = allPages - 2 * b /\ right = allPages)
             /\ (current - 1 > b /\ allPages - current > b)
                  => (left = current - b /\ right = current + b)
             /\ InnerPages(list, allPages) = (left..right) \ {1, allPages}
             /\ \A p \in left..right : Occurrences(list, Pager(p)) = 1
             /\ (allPages = 50 /\ current = 25 /\ b = 2)
                  => Shape(list) =
                       <<Pager(1), JumpPrevMarker, Pager(23), Pager(24),
                         Pager(25), Pager(26), Pager(27), JumpNextMarker,
                         Pager(50)>>

\* C16 witness: page 25 of 50 with buffer size 2, reached by paging.
C16_Witness ==
    /\ allPages = 50
    /\ current = 25
    /\ ~showLessItems
    /\ last.op # "mount"

HasType(list, type) == \E i \in 1..Len(list) : list[i].type = type

\* C17: in every valid state, with jump markers enabled, the page numbers of
\* the marker list are strictly increasing; JumpPrev is present exactly when
\* some page strictly between 1 and the first window page is not listed, and
\* JumpNext exactly when some page strictly between the last window page and
\* the last page is not listed; with at most 3 + 2 * bufferSize pages every
\* page is listed and there is no jump marker.
C17_JumpMarkersStandForGaps ==
    LET b == IF showLessItems THEN 1 ELSE 2
        list == pagerList(TRUE)
        nums == PageNumbers(list)
        listed == {nums[i] : i \in 1..Len(nums)}
        small == allPages <= 3 + 2 * b
        firstWindowPage == IF small THEN 1 ELSE left
        lastWindowPage == IF small THEN allPages ELSE right
    IN  ValidState
          => /\ \A i \in 1..(Len(nums) - 1) : nums[i] < nums[i + 1]
             /\ HasType(list, "jump-prev")
                  <=> (\E p \in 2..(firstWindowPage - 1) : p \notin listed)
             /\ HasType(list, "jump-next")
                  <=> (\E p \in (lastWindowPage + 1)..(allPages - 1) :
                          p \notin listed)
             /\ small
                  => /\ listed = 1..allPages
                     /\ ~HasType(list, "jump-prev")
                     /\ ~HasType(list, "jump-next")

\* C17 witness: a jump forward reached the last pages, where only JumpPrev
\* is listed.
C17_Witness ==
    /\ last.op = "jumpNextHandle"
    /\ notes # <<>>
    /\ HasType(pagerList(TRUE), "jump-prev")
    /\ ~HasType(pagerList(TRUE), "jump-next")

\* the targets of the jump markers of a list are pages other than the
\* current one
JumpTargetsAreOtherPages(list) ==
    \A i \in 1..Len(list) :
        list[i].type \in {"jump-prev", "jump-next"}
            => /\ list[i].page \in 1..TotalPages(total, pageSize)
               /\ list[i].page # current

\* an enabled control that holds its own state and has items
EnabledInternal ==
    /\ ~disabled
    /\ currentProp = Undefined
    /\ pageSizeProp = Undefined
    /\ total >= 1

\* the distance of a jump: 3 in compact mode and 5 otherwise
Distance == IF showLessItems THEN 3 ELSE 5

\* C18: on an enabled control that holds its own state, with total >= 1,
\* JumpPrev sets the current page to max(1, current - d) and JumpNext to
\* min(totalPages, current + d), d being 3 in compact mode and 5 otherwise;
\* and the target of every displayed jump marker is a page of 1..totalPages
\* other than the current page.
C18_JumpByFixedDistance ==
    /\ [](EnabledInternal => JumpTargetsAreOtherPages(pagerList(TRUE)))
    /\ [][EnabledInternal
            => /\ last'.op = "jumpPrevHandle"
                    => current' = Max(1, current - Distance)
               /\ last'.op = "jumpNextHandle"
                    => current' =
                         Min(TotalPages(total, pageSize),
                             current + Distance)]_vars

\* C18 witness: outside compact mode JumpNext, four pages before the end,
\* moved to the last page.
C18_Witness ==
    /\ last.op = "jumpNextHandle"
    /\ notes # <<>>
    /\ ~showLessItems
    /\ current = allPages
    /\ HasType(pagerList(TRUE), "jump-prev")

\* C19: Prev with current <= 1 and Next with current >= totalPages (also
\* when there are no pages) leave the current page, the page size and the
\* pending input value unchanged and fire no notification.
C19_PrevNextAtTheEnds ==
    [][(\/ last'.op = "prevHandle" /\ current <= 1
        \/ last'.op = "nextHandle"
             /\ current >= TotalPages(total, pageSize))
          => /\ current' = current
             /\ pageSize' = pageSize
             /\ internalInputVal' = internalInputVal
             /\ notes' = <<>>]_vars

\* C19 witness: Prev was used on the first page of several.
C19_Witness ==
    /\ last.op = "prevHandle"
    /\ notes = <<>>
    /\ current = 1
    /\ innerCurrent = Num(1)
    /\ allPages >= 2

=============================================================================
